---- MODULE Spec2Model ----
(***************************************************************************)
(* ArtSpotter recognition backend: the similarity function, the matching   *)
(* loop and threshold decision of POST /api/recognize, the model handle    *)
(* loaded at startup, and the painting table the handlers read and write.  *)
(*                                                                         *)
(* Numbers.  A similarity is a JavaScript double.  It is kept here as NaN  *)
(* or as the exact value of sgn(x) * x^2, a fraction num/den in lowest     *)
(* terms: cosine = dot / (sqrt(norm1) * sqrt(norm2)), so sgn(x) * x^2 =    *)
(* sgn(dot) * dot^2 / (norm1 * norm2).  x |-> sgn(x) * x^2 is strictly     *)
(* increasing, so > on the kept values is > on the cosines.  On the        *)
(* vectors of FeatureVectors the doubles the code computes are ordered, and*)
(* compare with 0 and 0.6, exactly as the kept values do.                  *)
(***************************************************************************)
EXTENDS Integers, Sequences, FiniteSets, TLC

\* Bounds of the model.
MaxRows == 2
MaxReq == 2

\* Extractor outputs and stored vectors the model draws from: a zero vector,
\* orthogonal, parallel and opposite vectors, a vector of another length,
\* and pairs whose cosine with <<1,0>> or <<3,4>> is exactly 0.6.
FeatureVectors ==
    { <<0, 0>>, <<1, 0>>, <<0, 1>>, <<1, 1>>, <<1, 2>>,
      <<3, 4>>, <<4, 3>>, <<-1, 0>>, <<1>> }

----------------------------------------------------------------------------
\* JavaScript values and SQL TEXT values

\* A features column value: SQL NULL, or a text.
SqlNull == [kind |-> "NULL", items |-> <<>>]

\* A JavaScript value held in a variable that should hold an array.
JsNull == [js |-> "null", items |-> <<>>]
JsArray(items) == [js |-> "array", items |-> items]

Returned(v) == [threw |-> FALSE, val |-> v]
Thrown == [threw |-> TRUE, val |-> JsNull]

\* JSON.stringify of an array of finite numbers: the text of the array.
JSONstringify(features) == [kind |-> "array", items |-> features.items]

\* JSON.parse: the array a text of an array denotes, null for the text
\* "null", and a SyntaxError for a text that is no JSON.
JSONparse(text) ==
    CASE text.kind = "array" -> Returned(JsArray(text.items))
      [] text.kind = "jsonnull" -> Returned(JsNull)
      [] OTHER -> Thrown

\* if (painting.features): null and the empty string are falsy.
Truthy(text) == text.kind \notin {"NULL", "empty"}

----------------------------------------------------------------------------
\* Similarity values

RECURSIVE GCD(_, _)
GCD(a, b) == IF b = 0 THEN a ELSE GCD(b, a % b)

Abs(x) == IF x < 0 THEN -x ELSE x
Sgn(x) == IF x > 0 THEN 1 ELSE IF x < 0 THEN -1 ELSE 0

NaN == [nan |-> TRUE, num |-> 0, den |-> 1]
Zero == [nan |-> FALSE, num |-> 0, den |-> 1]
One == [nan |-> FALSE, num |-> 1, den |-> 1]

\* The number whose signed square is n/d (d > 0), in lowest terms.
SignedSquare(n, d) ==
    LET g == GCD(Abs(n), d)
    IN  [nan |-> FALSE, num |-> n \div g, den |-> d \div g]

\* a > b on doubles: false as soon as either side is NaN.
GT(a, b) == ~a.nan /\ ~b.nan /\ a.num * b.den > b.num * a.den

\* const confidenceThreshold = 0.6: the number whose square is 9/25.
confidenceThreshold == [nan |-> FALSE, num |-> 9, den |-> 25]

RECURSIVE SumTo(_, _, _, _)
\* The for loop's accumulation of f1[i] * f2[i] over i = 1 .. n.
SumTo(f1, f2, i, n) ==
    IF i > n THEN 0 ELSE f1[i] * f2[i] + SumTo(f1, f2, i + 1, n)

\* Mutant: the divisor is the first norm alone, sqrt(norm1) * sqrt(norm1).
Quotient_FirstNormOnly(dotProduct, norm1, norm2) ==
    IF norm1 * norm2 = 0
    THEN NaN
    ELSE SignedSquare(Sgn(dotProduct) * dotProduct * dotProduct, norm1 * norm1)

\* Mutant: the square roots are left out, the divisor is norm1 * norm2.
Quotient_NoSqrt(dotProduct, norm1, norm2) ==
    IF norm1 * norm2 = 0
    THEN NaN
    ELSE SignedSquare(Sgn(dotProduct) * dotProduct * dotProduct,
                      norm1 * norm2 * norm1 * norm2)

\* dotProduct / (Math.sqrt(norm1) * Math.sqrt(norm2)): 0/0 is NaN.  A zero
\* norm makes the dot product zero, so the divisor is zero only under 0.
Quotient(dotProduct, norm1, norm2) ==
    IF norm1 * norm2 = 0
    THEN NaN
    ELSE SignedSquare(Sgn(dotProduct) * dotProduct * dotProduct, norm1 * norm2)

\* Mutant: no length check, the loop runs over the common prefix.
calculateSimilarity_NoLengthCheck(features1, features2) ==
    IF features1.js = "null" \/ features2.js = "null"
    THEN Thrown
    ELSE LET a == features1.items
             b == features2.items
             n == IF Len(a) < Len(b) THEN Len(a) ELSE Len(b)
         IN  Returned(Quotient(SumTo(a, b, 1, n), SumTo(a, a, 1, n), SumTo(b, b, 1, n)))

\* Mutant: vectors of different lengths are rejected with an exception.
calculateSimilarity_ThrowsOnLength(features1, features2) ==
    IF features1.js = "null" \/ features2.js = "null"
    THEN Thrown
    ELSE LET a == features1.items
             b == features2.items
         IN  IF Len(a) # Len(b)
             THEN Thrown
             ELSE Returned(Quotient(SumTo(a, b, 1, Len(a)), SumTo(a, a, 1, Len(a)),
                                    SumTo(b, b, 1, Len(a))))

\* calculateSimilarity(features1, features2).  Reading .length of null
\* throws a TypeError.
calculateSimilarity(features1, features2) ==
    IF features1.js = "null" \/ features2.js = "null"
    THEN Thrown
    ELSE LET a == features1.items
             b == features2.items
         IN  IF Len(a) # Len(b)
             THEN Returned(Zero)
             ELSE Returned(Quotient(SumTo(a, b, 1, Len(a)), SumTo(a, a, 1, Len(a)),
                                    SumTo(b, b, 1, Len(a))))

----------------------------------------------------------------------------
\* State

VARIABLES
    model,          \* the module-level model handle: "undefined" or "handle"
    loadModel_pc,   \* loadModel(): "awaiting", "resolved" or "rejected"
    painting,       \* the painting table, a sequence of rows
    req,            \* the requests in flight and their local variables
    pass,           \* one matching pass, stepped an iteration at a time
    call,           \* one call of calculateSimilarity and the call with the arguments swapped
    adm,            \* the add-features request under way and its local variables
    gen,            \* one generate-description request and its local variables
    add,            \* the add-painting request under way and its local variables
    history,        \* what the admin handlers have done: ids inserted, ids given features
    recognition_logs, \* the rows of the recognition_logs table (variants that log)
    probe           \* the last answer of GET / or GET /api/health

vars == <<model, loadModel_pc, painting, req, pass, call, adm, gen, add, history, recognition_logs, probe>>

\* The title column stands for the metadata columns (title, artist, year,
\* description, museum, wiki_link), which no handler of the model rewrites.
TitleOf(id) == IF id % 2 = 1 THEN "Sunflowers" ELSE "Water Lilies"

Row(id, features, status, views) ==
    [id |-> id, title |-> TitleOf(id), features |-> features,
     processing_status |-> status, view_count |-> views]

StoredTexts == {JSONstringify(JsArray(v)) : v \in FeatureVectors}

\* The tables of n rows with ids 1 .. n: a row is unprocessed (features
\* NULL, status 'pending') or holds the text add-features stored.
RowsOf(id) ==
    {Row(id, SqlNull, "pending", 0)}
        \cup {Row(id, t, "completed", 0) : t \in StoredTexts}

Tables(n) == {t \in [1 .. n -> UNION {RowsOf(id) : id \in 1 .. n}] :
                 \A id \in 1 .. n : t[id].id = id}

\* The orders in which a SELECT without ORDER BY may return the set S.
Orders(S) ==
    {s \in [1 .. Cardinality(S) -> S] :
        \A i, j \in 1 .. Cardinality(S) : i # j => s[i] # s[j]}

Projected(p) == [id |-> p.id, title |-> p.title, features |-> p.features]

\* Mutant: the WHERE clause is missing.
SelectWithFeatures_NoWhere(table) ==
    Orders({Projected(table[k]) : k \in 1 .. Len(table)})

\* SELECT id, title, ..., features FROM painting WHERE features IS NOT NULL:
\* the result sets the query may return.
SelectWithFeatures(table) ==
    Orders({Projected(table[k]) :
               k \in {j \in 1 .. Len(table) : table[j].features # SqlNull}})

----------------------------------------------------------------------------
\* The matching loop and the threshold decision of POST /api/recognize

\* Mutant: the running best starts below every score.
LoopStart_MinusOne ==
    [bestMatch |-> <<>>, highestSimilarity |-> [nan |-> FALSE, num |-> -1, den |-> 1],
     similarity |-> Zero, passed |-> <<>>, threw |-> FALSE]

\* Mutant: highestSimilarity is a module-level variable that is never set
\* back to 0, so a loop starts from the greatest score of earlier requests.
LoopStart_Carried ==
    [bestMatch |-> <<>>,
     highestSimilarity |->
        CHOOSE h \in {req[q].highestSimilarity : q \in 1 .. MaxReq} :
            \A q \in 1 .. MaxReq : ~GT(req[q].highestSimilarity, h),
     similarity |-> Zero, passed |-> <<>>, threw |-> FALSE]

\* let bestMatch = null; let highestSimilarity = 0;  similarity is the
\* loop's last score, passed the ids given to calculateSimilarity so far.
LoopStart ==
    [bestMatch |-> <<>>, highestSimilarity |-> Zero,
     similarity |-> Zero, passed |-> <<>>, threw |-> FALSE]

\* Mutant: every score that is a number replaces the running best.
Better_Always(similarity, highestSimilarity) == ~similarity.nan

\* Mutant: >= lets a later candidate of equal score replace the best.
Better_OrEqual(similarity, highestSimilarity) ==
    GT(similarity, highestSimilarity) \/ similarity = highestSimilarity

\* if (similarity > highestSimilarity)
Better(similarity, highestSimilarity) == GT(similarity, highestSimilarity)

\* One iteration of for (const painting of result.rows).
LoopBody(st, p, uploadedFeatures) ==
    IF st.threw \/ ~Truthy(p.features)
    THEN st
    ELSE LET storedFeatures == JSONparse(p.features)
         IN  IF storedFeatures.threw
             THEN [st EXCEPT !.threw = TRUE]
             ELSE LET s == calculateSimilarity(uploadedFeatures, storedFeatures.val)
                  IN  IF s.threw
                      THEN [st EXCEPT !.threw = TRUE,
                                      !.passed = Append(@, p.id)]
                      ELSE [st EXCEPT
                              !.similarity = s.val,
                              !.passed = Append(@, p.id),
                              !.highestSimilarity =
                                  IF Better(s.val, @) THEN s.val ELSE @,
                              !.bestMatch =
                                  IF Better(s.val, st.highestSimilarity)
                                  THEN <<p>> ELSE @]

RECURSIVE LoopFrom(_, _, _, _)
LoopFrom(st, rows, i, uploadedFeatures) ==
    IF i > Len(rows)
    THEN st
    ELSE LoopFrom(LoopBody(st, rows[i], uploadedFeatures), rows, i + 1, uploadedFeatures)

\* The whole loop, which runs without an await.
MatchLoop(uploadedFeatures, rows) == LoopFrom(LoopStart, rows, 1, uploadedFeatures)

\* Mutant: a score equal to the threshold is accepted.
IsMatch_AtThreshold(bestMatch, highestSimilarity) ==
    bestMatch # <<>>
        /\ (GT(highestSimilarity, confidenceThreshold)
                \/ highestSimilarity = confidenceThreshold)

\* if (bestMatch && highestSimilarity > confidenceThreshold)
IsMatch(bestMatch, highestSimilarity) ==
    bestMatch # <<>> /\ GT(highestSimilarity, confidenceThreshold)

\* Mutant: bestMatch and highestSimilarity are module-level variables, so
\* the body built after the awaited UPDATE holds what the latest loop of
\* any request left in them.
MatchResponse_Shared(bestMatch, highestSimilarity) ==
    LET q == CHOOSE q \in 1 .. MaxReq :
                 /\ req[q].bestMatch # <<>>
                 /\ \A o \in q + 1 .. MaxReq : req[o].bestMatch = <<>>
        other == req[q]
    IN  [status |-> 200, success |-> TRUE,
         painting |-> <<[id |-> other.bestMatch[1].id,
                         title |-> other.bestMatch[1].title]>>,
         confidence |-> other.highestSimilarity]

\* Mutant: the body takes its metadata from the last row of the pass, not
\* from bestMatch.
MatchResponse_LastRow(bestMatch, highestSimilarity) ==
    [status |-> 200, success |-> TRUE,
     painting |-> <<[id |-> pass.rows[Len(pass.rows)].id,
                     title |-> pass.rows[Len(pass.rows)].title]>>,
     confidence |-> highestSimilarity]

\* The two res.json bodies of the decision.
MatchResponse(bestMatch, highestSimilarity) ==
    [status |-> 200, success |-> TRUE,
     painting |-> <<[id |-> bestMatch[1].id, title |-> bestMatch[1].title]>>,
     confidence |-> highestSimilarity]

NoMatchResponse(highestSimilarity) ==
    [status |-> 200, success |-> FALSE, painting |-> <<>>,
     confidence |-> highestSimilarity]

NoResponse == [status |-> 0, success |-> FALSE, painting |-> <<>>, confidence |-> Zero]

PassIdle ==
    [pc |-> "idle", uploadedFeatures |-> JsArray(<<>>), rows |-> <<>>, i |-> 0,
     loop |-> LoopStart, res |-> NoResponse]

----------------------------------------------------------------------------
\* The server: loadModel() at startup and the POST /api/recognize handler,
\* one action per stretch of code between two awaits.

\* An uploaded file: absent, a buffer sharp cannot decode, or an image,
\* named by the vector the network computes for it.
NoFile == [kind |-> "none", features |-> <<>>]
CorruptFile == [kind |-> "corrupt", features |-> <<>>]
Image(v) == [kind |-> "image", features |-> v]

UploadedImages == {Image(<<1, 0>>), Image(<<3, 4>>)}
Uploads == {NoFile, CorruptFile} \cup UploadedImages

\* The text a processed row holds when the server starts: the reference
\* image of an odd id gave [1,0], that of an even id [0,1].
SeedText(id) ==
    JSONstringify(JsArray(IF id % 2 = 1 THEN <<1, 0>> ELSE <<0, 1>>))

\* A row the server starts with: unprocessed, or processed.
SeedRowsOf(id) ==
    {Row(id, SqlNull, "pending", 0), Row(id, SeedText(id), "completed", 0)}

SeedTables(n) == {t \in [1 .. n -> UNION {SeedRowsOf(id) : id \in 1 .. n}] :
                     \A id \in 1 .. n : t[id].id = id}

\* The bodies POST /api/admin/add-features answers with.
NoAdminResponse == [status |-> 0, success |-> FALSE, message |-> ""]
ImageRequired == [status |-> 400, success |-> FALSE, message |-> "Image required"]
PaintingIdRequired ==
    [status |-> 400, success |-> FALSE, message |-> "Painting ID required"]
PaintingNotFound ==
    [status |-> 404, success |-> FALSE, message |-> "Painting not found"]
FeaturesFailed ==
    [status |-> 500, success |-> FALSE, message |-> "Failed to process features"]
FeaturesAdded == [status |-> 200, success |-> TRUE, message |-> "AI features extracted"]

\* The local variables of an add-features request; paintingId 0 stands
\* for a body without paintingId.  extractions counts the calls of
\* extractFeatures, queries lists the pool.query calls issued.
NoAdminRequest ==
    [pc |-> "new", file |-> NoFile, paintingId |-> 0,
     features |-> JsArray(<<>>), extractions |-> 0, queries |-> <<>>,
     res |-> NoAdminResponse]

\* No GET / or GET /api/health answered yet.
NoProbe ==
    [endpoint |-> "", status |-> 0, aiModel |-> "", paintings |-> 0,
     paintingsWithAI |-> 0]

\* The bodies POST /api/admin/add-painting answers with; paintingId is the
\* id of the row RETURNING * gave back (0 when there is none).
NoAddResponse == [status |-> 0, success |-> FALSE, paintingId |-> 0]
AddRejected == [status |-> 400, success |-> FALSE, paintingId |-> 0]
AddFailed == [status |-> 500, success |-> FALSE, paintingId |-> 0]
Added(id) == [status |-> 200, success |-> TRUE, paintingId |-> id]

\* The local variables of an add-painting request: whether the body has a
\* title and an artist.
NoAddRequest ==
    [pc |-> "new", title |-> FALSE, artist |-> FALSE, res |-> NoAddResponse]

\* Nothing inserted by add-painting, no add-features answered 200 yet.
NoHistory == [added |-> {}, ingested |-> {}]

\* A value of the JSON body of generate-description: absent, a string or
\* a number.
Undefined == [type |-> "undefined", text |-> ""]
Str(text) == [type |-> "string", text |-> text]
Num(text) == [type |-> "number", text |-> text]

\* The description of an answer: none, the text of the API, or the text
\* of the template chosen by artistKey.
NoDescription == [from |-> "none", artistKey |-> ""]
ClaudeText == [from |-> "claude", artistKey |-> ""]
TemplateText(artistKey) == [from |-> "template", artistKey |-> artistKey]

\* The bodies POST /api/admin/generate-description answers with.
NoDescribeResponse == [status |-> 0, success |-> FALSE, description |-> NoDescription]
TitleAndArtistRequired ==
    [status |-> 400, success |-> FALSE, description |-> NoDescription]
DescriptionFailed ==
    [status |-> 500, success |-> FALSE, description |-> NoDescription]
Described(description) ==
    [status |-> 200, success |-> TRUE, description |-> description]

\* The local variables of a generate-description request; apiKey is
\* whether process.env.ANTHROPIC_API_KEY is set, api how axios.post ended
\* ("" when it was not called or has not ended).
NoDescribeRequest ==
    [pc |-> "idle", title |-> Undefined, artist |-> Undefined, year |-> Undefined,
     museum |-> Undefined, apiKey |-> FALSE, api |-> "", res |-> NoDescribeResponse]

\* No call of calculateSimilarity under way.
CallIdle ==
    [pc |-> "idle", features1 |-> JsArray(<<>>), features2 |-> JsArray(<<>>),
     result |-> Returned(Zero), swapped |-> Returned(Zero)]

\* The local variables of a request, and its history: modelAtPredict is
\* what the model handle was when the request's extraction reached
\* model.predict ("" before that), extractions counts the calls of
\* extractFeatures and extraction is how the call ended ("" while it has
\* not, then "returned" or "threw"), rows is result.rows of the SELECT and
\* queries lists the pool.query calls the handler has issued.
NoRequest ==
    [pc |-> "new", file |-> NoFile, uploadedFeatures |-> JsArray(<<>>),
     modelAtPredict |-> "", extractions |-> 0, extraction |-> "",
     rows |-> <<>>, queries |-> <<>>,
     bestMatch |-> <<>>, highestSimilarity |-> Zero, res |-> NoResponse]

\* res.status(400) and res.status(500) bodies: success: false, no score.
BadRequest == [status |-> 400, success |-> FALSE, painting |-> <<>>, confidence |-> Zero]
ServerError == [status |-> 500, success |-> FALSE, painting |-> <<>>, confidence |-> Zero]

Init ==
    /\ probe = NoProbe
    /\ recognition_logs = {}
    /\ history = NoHistory
    /\ add = NoAddRequest
    /\ gen = NoDescribeRequest
    /\ adm = NoAdminRequest
    /\ call = CallIdle
    /\ model = "undefined"
    /\ loadModel_pc = "awaiting"
    /\ painting \in UNION {SeedTables(n) : n \in 0 .. MaxRows}
    /\ req = [r \in 1 .. MaxReq |-> NoRequest]
    /\ pass = PassIdle

\* model = await tf.loadLayersModel(...) resolves.
LoadModel_Resolve ==
    /\ loadModel_pc = "awaiting"
    /\ model' = "handle"
    /\ loadModel_pc' = "resolved"
    /\ UNCHANGED <<painting, req, pass, call, adm, gen, add, history, recognition_logs, probe>>

\* Mutant: the catch calls loadModel again and the second attempt sets the
\* handle.
LoadModel_Reject_Retry ==
    /\ loadModel_pc = "awaiting"
    /\ loadModel_pc' = "rejected"
    /\ model' = "handle"
    /\ UNCHANGED <<painting, req, pass, call, adm, gen, add, history,
                   recognition_logs, probe>>

\* tf.loadLayersModel(...) rejects: the catch logs, model stays unset.
LoadModel_Reject ==
    /\ loadModel_pc = "awaiting"
    /\ loadModel_pc' = "rejected"
    /\ UNCHANGED <<model, painting, req, pass, call, adm, gen, add, history, recognition_logs, probe>>

\* Mutant: predict answers whether or not the model is loaded.
ModelPredict_Unchecked(handle, image) == Returned(JsArray(image.features))

\* model.predict(tensor) and Array.from(await features.data()): a
\* TypeError when the handle is undefined.
ModelPredict(handle, image) ==
    IF handle = "undefined" THEN Thrown ELSE Returned(JsArray(image.features))

\* Mutant: the UPDATE has no WHERE clause.
IncrementViewCount_AllRows(table, id) ==
    [k \in 1 .. Len(table) |-> [table[k] EXCEPT !.view_count = @ + 1]]

\* Mutant: the handler writes back a count it computed from the value the
\* row had when the server started (0), not view_count + 1 in the UPDATE.
IncrementViewCount_StaleRead(table, id) ==
    [k \in 1 .. Len(table) |->
        IF table[k].id = id THEN [table[k] EXCEPT !.view_count = 0 + 1] ELSE table[k]]

\* UPDATE painting SET view_count = view_count + 1 WHERE id = $1
IncrementViewCount(table, id) ==
    [k \in 1 .. Len(table) |->
        IF table[k].id = id THEN [table[k] EXCEPT !.view_count = @ + 1] ELSE table[k]]

\* The handler is entered (requests are numbered in their order of
\* arrival): no file answers 400; otherwise extractFeatures starts and
\* awaits sharp.
Recognize_Receive(r) ==
    /\ req[r].pc = "new"
    /\ \A q \in 1 .. r - 1 : req[q].pc # "new"
    /\ \E file \in Uploads :
          req' = [req EXCEPT ![r] =
                    IF file.kind = "none"
                    THEN [@ EXCEPT !.pc = "done", !.file = file, !.res = BadRequest]
                    ELSE [@ EXCEPT !.pc = "sharp", !.file = file,
                                   !.extractions = @ + 1]]
    /\ UNCHANGED <<model, loadModel_pc, painting, pass, call, adm, gen, add, history, recognition_logs, probe>>

\* Mutant: the catch of extractFeatures does not rethrow; the handler goes
\* on to the SELECT with undefined features.
ExtractionFailed_Swallowed(rq) ==
    [rq EXCEPT !.pc = "select", !.uploadedFeatures = JsNull]

\* extractFeatures rethrows what it caught; the handler's catch answers 500.
ExtractionFailed(rq) == [rq EXCEPT !.pc = "done", !.res = ServerError]

\* sharp has resolved or rejected.  A rejection, or the TypeError of
\* model.predict on an unset handle, is rethrown by extractFeatures and
\* answered 500 by the handler's catch.  Otherwise the features come back
\* and the handler issues the SELECT.
Recognize_Extract(r) ==
    /\ req[r].pc = "sharp"
    /\ req' = [req EXCEPT ![r] =
                 IF req[r].file.kind = "corrupt"
                 THEN ExtractionFailed([@ EXCEPT !.extraction = "threw"])
                 ELSE LET features == ModelPredict(model, req[r].file)
                      IN  IF features.threw
                          THEN ExtractionFailed([@ EXCEPT !.extraction = "threw",
                                                          !.modelAtPredict = model])
                          ELSE [@ EXCEPT !.pc = "select",
                                         !.extraction = "returned",
                                         !.uploadedFeatures = features.val,
                                         !.modelAtPredict = model]]
    /\ UNCHANGED <<model, loadModel_pc, painting, pass, call, adm, gen, add, history, recognition_logs, probe>>

\* The SELECT resolves; the loop and the decision run without an await.  A
\* Match issues the UPDATE, a NoMatch answers at once, an exception in the
\* loop answers 500.
Recognize_Match(r) ==
    /\ req[r].pc = "select"
    /\ \E rows \in SelectWithFeatures(painting) :
          LET st == MatchLoop(req[r].uploadedFeatures, rows)
              rq == [req[r] EXCEPT !.rows = rows,
                                   !.queries = Append(@, "SELECT")]
          IN  req' = [req EXCEPT ![r] =
                        IF st.threw
                        THEN [rq EXCEPT !.pc = "done", !.res = ServerError]
                        ELSE IF IsMatch(st.bestMatch, st.highestSimilarity)
                        THEN [rq EXCEPT !.pc = "update",
                                        !.bestMatch = st.bestMatch,
                                        !.highestSimilarity = st.highestSimilarity]
                        ELSE [rq EXCEPT !.pc = "done",
                                        !.bestMatch = st.bestMatch,
                                        !.highestSimilarity = st.highestSimilarity,
                                        !.res = NoMatchResponse(st.highestSimilarity)]]
    /\ UNCHANGED <<model, loadModel_pc, painting, pass, call, adm, gen, add, history, recognition_logs, probe>>

\* The UPDATE of the view count resolves and the Match is answered.
Recognize_Update(r) ==
    /\ req[r].pc = "update"
    /\ painting' = IncrementViewCount(painting, req[r].bestMatch[1].id)
    /\ req' = [req EXCEPT ![r] =
                 [@ EXCEPT !.pc = "done",
                           !.queries = Append(@, "UPDATE"),
                           !.res = MatchResponse(req[r].bestMatch,
                                                 req[r].highestSimilarity)]]
    /\ UNCHANGED <<model, loadModel_pc, pass, call, adm, gen, add, history, recognition_logs, probe>>

\* A pool.query of the handler rejects (the database is unreachable): the
\* handler's catch answers 500.
Recognize_QueryFails(r) ==
    /\ req[r].pc \in {"select", "update"}
    /\ req' = [req EXCEPT ![r] =
                 [@ EXCEPT !.pc = "done",
                           !.queries = Append(@, IF req[r].pc = "select"
                                                 THEN "SELECT" ELSE "UPDATE"),
                           !.res = ServerError]]
    /\ UNCHANGED <<model, loadModel_pc, painting, pass, call, adm, gen, add, history, recognition_logs, probe>>

Next ==
    \/ LoadModel_Resolve
    \/ LoadModel_Reject
    \/ \E r \in 1 .. MaxReq :
          \/ Recognize_Receive(r)
          \/ Recognize_Extract(r)
          \/ Recognize_Match(r)
          \/ Recognize_Update(r)
          \/ Recognize_QueryFails(r)

Spec == Init /\ [][Next]_vars

----------------------------------------------------------------------------
\* POST /api/admin/add-features beside the recognition handler: one
\* add-features request at a time, any number of them one after another.

\* The reference images an administrator uploads.
AdminImages == {Image(<<0, 1>>)}
AdminUploads == {NoFile, CorruptFile} \cup AdminImages

\* The paintingId of the body: absent (0), or an id, of the table or not.
PaintingIds == 0 .. MaxRows + 1

\* Mutant: the UPDATE has no WHERE clause.
SetFeatures_NoWhere(table, id, text) ==
    [k \in 1 .. Len(table) |->
        [table[k] EXCEPT !.features = text, !.processing_status = "completed"]]

\* UPDATE painting SET features = $1, processing_status = 'completed'
\* WHERE id = $2
SetFeatures(table, id, text) ==
    [k \in 1 .. Len(table) |->
        IF table[k].id = id
        THEN [table[k] EXCEPT !.features = text, !.processing_status = "completed"]
        ELSE table[k]]

\* RETURNING title, artist: the rows the UPDATE changed.
Returning(table, id) == {k \in 1 .. Len(table) : table[k].id = id}

\* The handler is entered: no file answers 400, no paintingId answers 400;
\* otherwise extractFeatures starts and awaits sharp.
AddFeatures_Receive ==
    /\ adm.pc \in {"new", "done"}
    /\ \E file \in AdminUploads, paintingId \in PaintingIds :
          adm' = IF file.kind = "none"
                 THEN [NoAdminRequest EXCEPT !.pc = "done", !.file = file,
                                             !.paintingId = paintingId,
                                             !.res = ImageRequired]
                 ELSE IF paintingId = 0
                 THEN [NoAdminRequest EXCEPT !.pc = "done", !.file = file,
                                             !.res = PaintingIdRequired]
                 ELSE [NoAdminRequest EXCEPT !.pc = "sharp", !.file = file,
                                             !.paintingId = paintingId,
                                             !.extractions = 1]
    /\ UNCHANGED <<model, loadModel_pc, painting, req, pass, call, gen, add, history, recognition_logs, probe>>

\* sharp has resolved or rejected; a failed extraction is answered 500 by
\* the handler's catch, otherwise the handler issues the UPDATE.
AddFeatures_Extract ==
    /\ adm.pc = "sharp"
    /\ adm' = IF adm.file.kind = "corrupt"
              THEN [adm EXCEPT !.pc = "done", !.res = FeaturesFailed]
              ELSE LET features == ModelPredict(model, adm.file)
                   IN  IF features.threw
                       THEN [adm EXCEPT !.pc = "done", !.res = FeaturesFailed]
                       ELSE [adm EXCEPT !.pc = "update", !.features = features.val]
    /\ UNCHANGED <<model, loadModel_pc, painting, req, pass, call, gen, add, history, recognition_logs, probe>>

\* The UPDATE resolves: no row changed answers 404, otherwise 200.
AddFeatures_Update ==
    /\ adm.pc = "update"
    /\ painting' = SetFeatures(painting, adm.paintingId, JSONstringify(adm.features))
    /\ adm' = [adm EXCEPT !.pc = "done",
                          !.queries = Append(@, "UPDATE"),
                          !.res = IF Returning(painting, adm.paintingId) = {}
                                  THEN PaintingNotFound
                                  ELSE FeaturesAdded]
    /\ history' = IF Returning(painting, adm.paintingId) = {}
                  THEN history
                  ELSE [history EXCEPT !.ingested = @ \cup {adm.paintingId}]
    /\ UNCHANGED <<model, loadModel_pc, req, pass, call, gen, add, recognition_logs, probe>>

\* The UPDATE rejects: the handler's catch answers 500.
AddFeatures_QueryFails ==
    /\ adm.pc = "update"
    /\ adm' = [adm EXCEPT !.pc = "done", !.queries = Append(@, "UPDATE"),
                          !.res = FeaturesFailed]
    /\ UNCHANGED <<model, loadModel_pc, painting, req, pass, call, gen, add, history, recognition_logs, probe>>

\* Mutant: the INSERT stores a feature vector and the status 'completed'.
InsertPainting_WithFeatures(table) ==
    Append(table, Row(Len(table) + 1, JSONstringify(JsArray(<<1, 0>>)), "completed", 0))

\* INSERT INTO painting (..., view_count, processing_status, created_at)
\* VALUES (..., 0, 'pending', NOW()): the features column is not named, so
\* it is NULL; the serial id is the next one.
InsertPainting(table) == Append(table, Row(Len(table) + 1, SqlNull, "pending", 0))

\* POST /api/admin/add-painting is entered: a body without title or artist
\* answers 400, otherwise the handler issues the INSERT.  The table of the
\* model holds MaxRows rows at most.
AddPainting_Receive ==
    /\ add.pc \in {"new", "done"}
    /\ Len(painting) < MaxRows
    /\ \E title, artist \in BOOLEAN :
          add' = IF ~title \/ ~artist
                 THEN [NoAddRequest EXCEPT !.pc = "done", !.title = title,
                                           !.artist = artist, !.res = AddRejected]
                 ELSE [NoAddRequest EXCEPT !.pc = "insert", !.title = title,
                                           !.artist = artist]
    /\ UNCHANGED <<model, loadModel_pc, painting, req, pass, call, adm, gen, history, recognition_logs, probe>>

\* The INSERT resolves: the new row is answered.
AddPainting_Insert ==
    /\ add.pc = "insert"
    /\ Len(painting) < MaxRows
    /\ painting' = InsertPainting(painting)
    /\ add' = [add EXCEPT !.pc = "done", !.res = Added(Len(painting) + 1)]
    /\ history' = [history EXCEPT !.added = @ \cup {Len(painting) + 1}]
    /\ UNCHANGED <<model, loadModel_pc, req, pass, call, adm, gen, recognition_logs, probe>>

\* The INSERT rejects: the handler's catch answers 500.
AddPainting_QueryFails ==
    /\ add.pc = "insert"
    /\ add' = [add EXCEPT !.pc = "done", !.res = AddFailed]
    /\ UNCHANGED <<model, loadModel_pc, painting, req, pass, call, adm, gen, history, recognition_logs, probe>>

\* The server with its admin handlers and one recognition request.
AdminNext ==
    \/ AddPainting_Receive
    \/ AddPainting_Insert
    \/ AddPainting_QueryFails
    \/ LoadModel_Resolve
    \/ LoadModel_Reject
    \/ AddFeatures_Receive
    \/ AddFeatures_Extract
    \/ AddFeatures_Update
    \/ AddFeatures_QueryFails
    \/ Recognize_Receive(1)
    \/ Recognize_Extract(1)
    \/ Recognize_Match(1)
    \/ Recognize_Update(1)
    \/ Recognize_QueryFails(1)

AdminSpec == Init /\ [][AdminNext]_vars

----------------------------------------------------------------------------
\* POST /api/admin/generate-description on its own.

\* !value of JavaScript.
Falsy(value) ==
    \/ value.type = "undefined"
    \/ value.type = "string" /\ value.text = ""
    \/ value.type = "number" /\ value.text = "0"

\* String.prototype.toLowerCase on the artist names of the model.
ToLowerCase(text) ==
    CASE text = "Vincent van Gogh" -> "vincent van gogh"
      [] text = "J.M.W. Turner" -> "j.m.w. turner"
      [] text = "Claude Monet" -> "claude monet"
      [] OTHER -> text

\* String.prototype.includes on those names and the template keys.
Includes(text, key) ==
    <<text, key>> \in {<<"vincent van gogh", "van gogh">>, <<"j.m.w. turner", "turner">>}

\* generateTemplateDescription: the first key of artistTemplates the
\* lower-cased artist includes, or 'default'; artist.toLowerCase is a
\* TypeError when artist is not a string.
generateTemplateDescription(title, artist, year, museum) ==
    IF artist.type # "string"
    THEN Thrown
    ELSE LET keys == <<"turner", "constable", "van gogh", "default">>
             found == {k \in 1 .. Len(keys) : Includes(ToLowerCase(artist.text), keys[k])}
         IN  Returned(TemplateText(
                 IF found = {}
                 THEN "default"
                 ELSE keys[CHOOSE k \in found : \A o \in found : k <= o]))

\* What the handler answers once generateArtworkDescription has returned
\* or thrown.
DescribeAnswer(description) ==
    IF description.threw THEN DescriptionFailed ELSE Described(description.val)

Titles == {Undefined, Str("Irises")}
Artists ==
    {Undefined, Str(""), Str("Vincent van Gogh"), Str("J.M.W. Turner"),
     Str("Claude Monet"), Num("42")}
Years == {Undefined, Str("1889")}
Museums == {Undefined, Str("Tate Britain")}

DescribeInit ==
    /\ probe = NoProbe
    /\ recognition_logs = {}
    /\ history = NoHistory
    /\ add = NoAddRequest
    /\ model = "handle"
    /\ loadModel_pc = "resolved"
    /\ painting = <<>>
    /\ req = [r \in 1 .. MaxReq |-> NoRequest]
    /\ pass = PassIdle
    /\ call = CallIdle
    /\ adm = NoAdminRequest
    /\ \E title \in Titles, artist \in Artists, year \in Years, museum \in Museums,
          apiKey \in BOOLEAN :
          gen = [NoDescribeRequest EXCEPT !.pc = "new", !.title = title,
                                          !.artist = artist, !.year = year,
                                          !.museum = museum, !.apiKey = apiKey]

\* The handler is entered: a missing title or artist answers 400; with an
\* API key generateWithClaude awaits axios.post; without one the template
\* is used at once.
Describe_Receive ==
    /\ gen.pc = "new"
    /\ gen' = IF Falsy(gen.title) \/ Falsy(gen.artist)
              THEN [gen EXCEPT !.pc = "done", !.res = TitleAndArtistRequired]
              ELSE IF gen.apiKey
              THEN [gen EXCEPT !.pc = "axios"]
              ELSE [gen EXCEPT !.pc = "done",
                               !.res = DescribeAnswer(generateTemplateDescription(
                                           gen.title, gen.artist, gen.year, gen.museum))]
    /\ UNCHANGED <<model, loadModel_pc, painting, req, pass, call, adm, add, history, recognition_logs, probe>>

\* axios.post resolves with a text: the answer carries it.
Describe_ApiResolves ==
    /\ gen.pc = "axios"
    /\ gen' = [gen EXCEPT !.pc = "done", !.api = "resolved",
                          !.res = Described(ClaudeText)]
    /\ UNCHANGED <<model, loadModel_pc, painting, req, pass, call, adm, add, history, recognition_logs, probe>>

\* axios.post rejects (or its answer has no text): generateWithClaude
\* throws, the catch of generateArtworkDescription returns the template.
Describe_ApiRejects ==
    /\ gen.pc = "axios"
    /\ gen' = [gen EXCEPT !.pc = "done", !.api = "rejected",
                          !.res = DescribeAnswer(generateTemplateDescription(
                                      gen.title, gen.artist, gen.year, gen.museum))]
    /\ UNCHANGED <<model, loadModel_pc, painting, req, pass, call, adm, add, history, recognition_logs, probe>>

DescribeNext == Describe_Receive \/ Describe_ApiResolves \/ Describe_ApiRejects

DescribeSpec == DescribeInit /\ [][DescribeNext]_vars

----------------------------------------------------------------------------
\* The server from its start: loadModel(), the two status endpoints, a
\* recognition request and add-features requests.

\* model ? 'loaded' : 'loading'
aiModel(handle) == IF handle = "handle" THEN "loaded" ELSE "loading"

\* SELECT COUNT(*) as total, COUNT(features) as with_features FROM painting
CountFeatures(table) ==
    Cardinality({k \in 1 .. Len(table) : table[k].features # SqlNull})

\* GET /: answered at once.
Root_Get ==
    /\ probe' = [endpoint |-> "/", status |-> 200, aiModel |-> aiModel(model),
                 paintings |-> 0, paintingsWithAI |-> 0]
    /\ UNCHANGED <<model, loadModel_pc, painting, req, pass, call, adm, gen, add,
                   history, recognition_logs>>

\* GET /api/health: the count query has resolved (200) or rejected (500);
\* both bodies read the model handle after the await.
Health_Get ==
    /\ \E resolved \in BOOLEAN :
          probe' = IF resolved
                   THEN [endpoint |-> "/api/health", status |-> 200,
                         aiModel |-> aiModel(model), paintings |-> Len(painting),
                         paintingsWithAI |-> CountFeatures(painting)]
                   ELSE [endpoint |-> "/api/health", status |-> 500,
                         aiModel |-> aiModel(model), paintings |-> 0,
                         paintingsWithAI |-> 0]
    /\ UNCHANGED <<model, loadModel_pc, painting, req, pass, call, adm, gen, add,
                   history, recognition_logs>>

StartupNext ==
    \/ LoadModel_Resolve
    \/ LoadModel_Reject
    \/ Root_Get
    \/ Health_Get
    \/ AddFeatures_Receive
    \/ AddFeatures_Extract
    \/ AddFeatures_Update
    \/ AddFeatures_QueryFails
    \/ Recognize_Receive(1)
    \/ Recognize_Extract(1)
    \/ Recognize_Match(1)
    \/ Recognize_Update(1)
    \/ Recognize_QueryFails(1)

StartupSpec == Init /\ [][StartupNext]_vars

----------------------------------------------------------------------------
\* POST /api/recognize of the variants that log recognitions
\* (api/index.js, railway-backend/index.js): the same handler with an
\* INSERT INTO recognition_logs after the threshold decision.

\* Mutant: the row is always written with success true.
LogRow_AlwaysTrue(r, painting_id, confidence_score, success) ==
    [painting_id |-> painting_id, confidence_score |-> confidence_score,
     success |-> TRUE, by |-> r]

\* A row of recognition_logs; painting_id 0 stands for NULL, by is the
\* request that inserted the row.
LogRow(r, painting_id, confidence_score, success) ==
    [painting_id |-> painting_id, confidence_score |-> confidence_score,
     success |-> success, by |-> r]

\* The server once the model is loaded.
LogInit ==
    /\ model = "handle"
    /\ loadModel_pc = "resolved"
    /\ painting \in UNION {SeedTables(n) : n \in 0 .. MaxRows}
    /\ req = [r \in 1 .. MaxReq |-> NoRequest]
    /\ pass = PassIdle
    /\ call = CallIdle
    /\ adm = NoAdminRequest
    /\ gen = NoDescribeRequest
    /\ add = NoAddRequest
    /\ history = NoHistory
    /\ recognition_logs = {}
    /\ probe = NoProbe

\* The SELECT resolves; the loop and the decision run without an await and
\* the handler issues the INSERT of its branch.
LogRecognize_Match(r) ==
    /\ req[r].pc = "select"
    /\ \E rows \in SelectWithFeatures(painting) :
          LET st == MatchLoop(req[r].uploadedFeatures, rows)
              rq == [req[r] EXCEPT !.rows = rows,
                                   !.queries = Append(@, "SELECT")]
          IN  req' = [req EXCEPT ![r] =
                        IF st.threw
                        THEN [rq EXCEPT !.pc = "done", !.res = ServerError]
                        ELSE [rq EXCEPT
                                !.pc = IF IsMatch(st.bestMatch, st.highestSimilarity)
                                       THEN "logMatch" ELSE "logNoMatch",
                                !.bestMatch = st.bestMatch,
                                !.highestSimilarity = st.highestSimilarity]]
    /\ UNCHANGED <<model, loadModel_pc, painting, pass, call, adm, gen, add, history,
                   recognition_logs, probe>>

\* The INSERT resolves: after a Match the handler issues the UPDATE of the
\* view count, after a NoMatch it answers.
LogRecognize_Insert(r) ==
    /\ req[r].pc \in {"logMatch", "logNoMatch"}
    /\ recognition_logs' = recognition_logs \cup
          {IF req[r].pc = "logMatch"
           THEN LogRow(r, req[r].bestMatch[1].id, req[r].highestSimilarity, TRUE)
           ELSE LogRow(r, 0, req[r].highestSimilarity, FALSE)}
    /\ req' = [req EXCEPT ![r] =
                 IF req[r].pc = "logMatch"
                 THEN [@ EXCEPT !.pc = "update", !.queries = Append(@, "INSERT")]
                 ELSE [@ EXCEPT !.pc = "done", !.queries = Append(@, "INSERT"),
                                !.res = NoMatchResponse(req[r].highestSimilarity)]]
    /\ UNCHANGED <<model, loadModel_pc, painting, pass, call, adm, gen, add, history, probe>>

\* A pool.query of the handler rejects: the handler's catch answers 500.
LogRecognize_QueryFails(r) ==
    /\ req[r].pc \in {"select", "logMatch", "logNoMatch", "update"}
    /\ req' = [req EXCEPT ![r] =
                 [@ EXCEPT !.pc = "done",
                           !.queries = Append(@, CASE req[r].pc = "select" -> "SELECT"
                                                   [] req[r].pc = "update" -> "UPDATE"
                                                   [] OTHER -> "INSERT"),
                           !.res = ServerError]]
    /\ UNCHANGED <<model, loadModel_pc, painting, pass, call, adm, gen, add, history,
                   recognition_logs, probe>>

LogNext ==
    \E r \in 1 .. MaxReq :
        \/ Recognize_Receive(r)
        \/ Recognize_Extract(r)
        \/ LogRecognize_Match(r)
        \/ LogRecognize_Insert(r)
        \/ Recognize_Update(r)
        \/ LogRecognize_QueryFails(r)

LogSpec == LogInit /\ [][LogNext]_vars

----------------------------------------------------------------------------
\* One matching pass, an iteration at a time (lines 182-231 without the
\* awaits): the catalog read, the loop, the decision.

MatchInit ==
    /\ probe = NoProbe
    /\ recognition_logs = {}
    /\ history = NoHistory
    /\ add = NoAddRequest
    /\ gen = NoDescribeRequest
    /\ adm = NoAdminRequest
    /\ call = CallIdle
    /\ model = "handle"
    /\ loadModel_pc = "resolved"
    /\ painting \in UNION {Tables(n) : n \in 0 .. MaxRows}
    /\ req = [r \in 1 .. MaxReq |-> NoRequest]
    /\ \E v \in FeatureVectors :
          pass = [PassIdle EXCEPT !.pc = "select", !.uploadedFeatures = JsArray(v)]

\* const result = await pool.query(SELECT ...); let bestMatch = null; ...
Pass_Select ==
    /\ pass.pc = "select"
    /\ \E rows \in SelectWithFeatures(painting) :
          pass' = [pass EXCEPT !.pc = "loop", !.rows = rows, !.i = 1,
                               !.loop = LoopStart]
    /\ UNCHANGED <<model, loadModel_pc, painting, req, call, adm, gen, add, history, recognition_logs, probe>>

\* One iteration of the for loop; an exception leaves the loop.
Pass_Iterate ==
    /\ pass.pc = "loop"
    /\ pass.i <= Len(pass.rows)
    /\ LET st == LoopBody(pass.loop, pass.rows[pass.i], pass.uploadedFeatures)
       IN  pass' = [pass EXCEPT !.loop = st, !.i = @ + 1,
                                !.pc = IF st.threw THEN "raised" ELSE "loop"]
    /\ UNCHANGED <<model, loadModel_pc, painting, req, call, adm, gen, add, history, recognition_logs, probe>>

\* The threshold decision after the loop.
Pass_Decide ==
    /\ pass.pc = "loop"
    /\ pass.i > Len(pass.rows)
    /\ pass' = [pass EXCEPT
                  !.pc = "done",
                  !.res = IF IsMatch(pass.loop.bestMatch, pass.loop.highestSimilarity)
                          THEN MatchResponse(pass.loop.bestMatch,
                                             pass.loop.highestSimilarity)
                          ELSE NoMatchResponse(pass.loop.highestSimilarity)]
    /\ UNCHANGED <<model, loadModel_pc, painting, req, call, adm, gen, add, history, recognition_logs, probe>>

MatchNext == Pass_Select \/ Pass_Iterate \/ Pass_Decide

MatchSpec == MatchInit /\ [][MatchNext]_vars

----------------------------------------------------------------------------
\* calculateSimilarity on its own: the function is called on two vectors
\* and then on the same two vectors in the other order.

SimilarityInit ==
    /\ probe = NoProbe
    /\ recognition_logs = {}
    /\ history = NoHistory
    /\ add = NoAddRequest
    /\ gen = NoDescribeRequest
    /\ adm = NoAdminRequest
    /\ model = "handle"
    /\ loadModel_pc = "resolved"
    /\ painting = <<>>
    /\ req = [r \in 1 .. MaxReq |-> NoRequest]
    /\ pass = PassIdle
    /\ \E a, b \in FeatureVectors :
          call = [CallIdle EXCEPT !.pc = "given", !.features1 = JsArray(a),
                                  !.features2 = JsArray(b)]

Call_Similarity ==
    /\ call.pc = "given"
    /\ call' = [call EXCEPT !.pc = "called",
                            !.result = calculateSimilarity(call.features1,
                                                           call.features2)]
    /\ UNCHANGED <<model, loadModel_pc, painting, req, pass, adm, gen, add, history, recognition_logs, probe>>

Call_Swapped ==
    /\ call.pc = "called"
    /\ call' = [call EXCEPT !.pc = "done",
                            !.swapped = calculateSimilarity(call.features2,
                                                            call.features1)]
    /\ UNCHANGED <<model, loadModel_pc, painting, req, pass, adm, gen, add, history, recognition_logs, probe>>

SimilarityNext == Call_Similarity \/ Call_Swapped

SimilaritySpec == SimilarityInit /\ [][SimilarityNext]_vars

----------------------------------------------------------------------------
\* Properties of the matching pass (checked under MatchSpec)

\* The score of a row of the pass against the query.
ScoreOf(p) ==
    calculateSimilarity(pass.uploadedFeatures, JSONparse(p.features).val).val

VectorOf(p) == JSONparse(p.features).val.items

\* The rows the loop has gone through.
Seen == 1 .. (pass.i - 1)

InLoop == pass.pc \in {"loop", "done"}

\* Row j has the greatest score of the rows seen.
Greatest(j) ==
    /\ ~ScoreOf(pass.rows[j]).nan
    /\ \A k \in Seen : ~GT(ScoreOf(pass.rows[k]), ScoreOf(pass.rows[j]))

FirstGreatest(j) == Greatest(j) /\ \A k \in Seen : k < j => ~Greatest(k)

SomeAboveZero == \E j \in Seen : GT(ScoreOf(pass.rows[j]), Zero)

\* C1 as stated: after the loop the selected candidate is the eligible
\* candidate of greatest similarity, the first of them on a tie (taken over
\* passes in which every score is a number).
C1_SelectsGreatest ==
    (pass.pc = "done" /\ pass.rows # <<>>
        /\ \A k \in Seen : ~ScoreOf(pass.rows[k]).nan)
    => \E j \in Seen : FirstGreatest(j) /\ pass.loop.bestMatch = <<pass.rows[j]>>

\* C1 amended: at every point of the loop, if some candidate seen scores
\* above 0 the selected candidate is the first one seen with the greatest
\* score and that score is the running best; if none scores above 0 no
\* candidate is selected.
C1_SelectsGreatestAboveZero ==
    InLoop =>
        /\ SomeAboveZero =>
              \E j \in Seen :
                  /\ FirstGreatest(j)
                  /\ pass.loop.bestMatch = <<pass.rows[j]>>
                  /\ pass.loop.highestSimilarity = ScoreOf(pass.rows[j])
        /\ ~SomeAboveZero => pass.loop.bestMatch = <<>>

\* Two candidates with different vectors tie at the greatest score and the
\* first is the one selected.
C1_Witness ==
    /\ pass.pc = "done"
    /\ Len(pass.rows) >= 2
    /\ FirstGreatest(1)
    /\ GT(ScoreOf(pass.rows[1]), Zero)
    /\ ScoreOf(pass.rows[2]) = ScoreOf(pass.rows[1])
    /\ pass.rows[1].features # pass.rows[2].features
    /\ pass.loop.bestMatch = <<pass.rows[1]>>

\* The scenario of the specification: candidates 1 -> [1,0], 2 -> [0,1],
\* query [1,0].
Scenario ==
    /\ pass.uploadedFeatures = JsArray(<<1, 0>>)
    /\ Len(painting) = 2
    /\ painting[1].features = JSONstringify(JsArray(<<1, 0>>))
    /\ painting[2].features = JSONstringify(JsArray(<<0, 1>>))

\* C2: the pass answers success: true only with a winning score strictly
\* above the threshold 0.6, the score of the entry it returns; a winning
\* score at or below 0.6 answers success: false; the scenario answers
\* entry 1 with score 1.
C2_MatchOnlyAboveThreshold ==
    pass.pc = "done" =>
        /\ pass.res.success =>
              /\ GT(pass.res.confidence, confidenceThreshold)
              /\ pass.res.confidence = pass.loop.highestSimilarity
              /\ \E j \in Seen :
                    /\ pass.res.painting[1].id = pass.rows[j].id
                    /\ pass.res.confidence = ScoreOf(pass.rows[j])
        /\ ~GT(pass.loop.highestSimilarity, confidenceThreshold) =>
              ~pass.res.success /\ pass.res.painting = <<>>
        /\ Scenario =>
              /\ pass.res.success
              /\ pass.res.painting[1].id = 1
              /\ pass.res.confidence = One

C2_Witness ==
    pass.pc = "done" /\ Scenario /\ pass.res.success /\ pass.res.confidence = One

AllAtOrBelowThreshold ==
    \A k \in Seen : ~GT(ScoreOf(pass.rows[k]), confidenceThreshold)

LastPair ==
    pass.pc \in {"loop", "done", "raised"} /\ pass.i > 1
        /\ pass.loop.passed # <<>>
        /\ pass.loop.passed[Len(pass.loop.passed)] = pass.rows[pass.i - 1].id

IsZeroVector(v) == \A k \in 1 .. Len(v) : v[k] = 0

\* C4: when either vector given to the similarity function is all zero,
\* the function returns 0, not NaN.
C4_ZeroVectorGivesZero ==
    (LastPair
        /\ (IsZeroVector(pass.uploadedFeatures.items)
                \/ IsZeroVector(VectorOf(pass.rows[pass.i - 1]))))
    => ~pass.loop.threw /\ pass.loop.similarity = Zero

\* C5: vectors of different lengths score 0 without an exception, and a
\* stored vector of another length than the query is never the selected
\* candidate nor the entry of a Match.
C5_LengthMismatchGivesZero ==
    /\ (LastPair /\ Len(VectorOf(pass.rows[pass.i - 1])) # Len(pass.uploadedFeatures.items))
       => ~pass.loop.threw /\ pass.loop.similarity = Zero
    /\ pass.loop.bestMatch # <<>> =>
          Len(VectorOf(pass.loop.bestMatch[1])) = Len(pass.uploadedFeatures.items)
    /\ (pass.pc = "done" /\ pass.res.success) =>
          \E j \in Seen :
              /\ pass.rows[j].id = pass.res.painting[1].id
              /\ Len(VectorOf(pass.rows[j])) = Len(pass.uploadedFeatures.items)

\* A stored vector of another length has been scored, and the pass went on
\* to match a candidate of the right length.
C5_Witness ==
    /\ pass.pc = "done"
    /\ pass.res.success
    /\ \E j \in Seen :
          /\ Len(VectorOf(pass.rows[j])) # Len(pass.uploadedFeatures.items)
          /\ pass.rows[j].id \in {pass.loop.passed[k] : k \in 1 .. Len(pass.loop.passed)}

NoEligible == \A k \in 1 .. Len(painting) : painting[k].features = SqlNull

\* C8: a pass over a catalog with no eligible candidate (no rows, or no row
\* with a stored vector) answers NoMatch with score 0, not an error.
C8_EmptyGivesNoMatchZero ==
    (pass.pc \in {"done", "raised"} /\ NoEligible)
    => /\ pass.pc = "done"
       /\ pass.res = NoMatchResponse(Zero)
       /\ pass.loop.passed = <<>>

\* The catalog has rows, none of them processed, and the pass has answered.
C8_Witness ==
    pass.pc = "done" /\ Len(painting) > 0 /\ NoEligible /\ ~pass.res.success

IdsWithFeatures ==
    {painting[k].id : k \in {j \in 1 .. Len(painting) : painting[j].features # SqlNull}}

\* C9: entries without a stored vector are not among the candidates read
\* for the pass, are never given to the similarity function and are never
\* the selected candidate or the entry of a Match.
C9_UnprocessedExcluded ==
    /\ \A k \in 1 .. Len(pass.rows) : pass.rows[k].features # SqlNull
    /\ \A k \in 1 .. Len(pass.loop.passed) : pass.loop.passed[k] \in IdsWithFeatures
    /\ pass.loop.bestMatch # <<>> => pass.loop.bestMatch[1].id \in IdsWithFeatures
    /\ pass.res.success => pass.res.painting[1].id \in IdsWithFeatures

\* The first entry has no stored vector, the second has one and is matched.
C9_Witness ==
    /\ pass.pc = "done"
    /\ Len(painting) = 2
    /\ painting[1].features = SqlNull
    /\ pass.res.success
    /\ pass.res.painting[1].id = 2

\* C16: a stored vector equal to a query that is not all zero scores 1
\* (exactly here; within rounding in doubles), and a pass over a snapshot
\* holding such a row ends with a Match of score 1, so above the threshold.
C16_SelfSimilarityIsOne ==
    /\ (LastPair
          /\ VectorOf(pass.rows[pass.i - 1]) = pass.uploadedFeatures.items
          /\ ~IsZeroVector(pass.uploadedFeatures.items))
       => /\ ~pass.loop.threw
          /\ pass.loop.similarity = One
          /\ GT(pass.loop.similarity, confidenceThreshold)
    /\ (pass.pc = "done"
          /\ ~IsZeroVector(pass.uploadedFeatures.items)
          /\ \E j \in Seen : VectorOf(pass.rows[j]) = pass.uploadedFeatures.items)
       => /\ pass.res.success
          /\ pass.res.confidence = One

\* The query [3,4] met a row that stores [3,4] after a row that stores
\* another vector, and the pass answered a Match of that row.
C16_Witness ==
    /\ pass.pc = "done"
    /\ pass.uploadedFeatures.items = <<3, 4>>
    /\ Len(pass.rows) = 2
    /\ VectorOf(pass.rows[1]) # <<3, 4>>
    /\ VectorOf(pass.rows[2]) = <<3, 4>>
    /\ pass.res.success
    /\ pass.res.painting[1].id = pass.rows[2].id

\* C21: at every step of the loop bestMatch is set exactly when
\* highestSimilarity is above 0; the row held as bestMatch scored above 0
\* and highestSimilarity is its score; and when none of the rows seen so
\* far scored above 0 (each scored 0, below 0 or NaN), bestMatch is unset
\* and highestSimilarity is still 0.
C21_BestMatchOnlyAboveZero ==
    InLoop =>
        /\ pass.loop.bestMatch # <<>> <=> GT(pass.loop.highestSimilarity, Zero)
        /\ ~pass.loop.highestSimilarity.nan
        /\ pass.loop.bestMatch # <<>> =>
              /\ GT(ScoreOf(pass.loop.bestMatch[1]), Zero)
              /\ pass.loop.highestSimilarity = ScoreOf(pass.loop.bestMatch[1])
        /\ ~SomeAboveZero =>
              /\ pass.loop.bestMatch = <<>>
              /\ pass.loop.highestSimilarity = Zero

\* The loop has gone through a row that scored 0, a row that scored below
\* 0 or NaN, and holds no best match and the score 0.
C21_Witness ==
    /\ pass.pc = "loop"
    /\ pass.i = 3
    /\ ScoreOf(pass.rows[1]) = Zero
    /\ ScoreOf(pass.rows[2]).nan \/ GT(Zero, ScoreOf(pass.rows[2]))
    /\ pass.loop.bestMatch = <<>>
    /\ pass.loop.highestSimilarity = Zero

----------------------------------------------------------------------------
\* Properties of the recognition handler (checked under Spec)

Requests == 1 .. MaxReq

\* C7: a request whose extraction reaches model.predict while the model
\* handle is unset ends with the failure answer, and a request holds
\* extracted features or a Match / NoMatch answer only in states where the
\* model is loaded.
C7_ModelLoadGatesRecognition ==
    \A r \in Requests :
        /\ req[r].modelAtPredict = "undefined" =>
              req[r].pc = "done" /\ req[r].res = ServerError
        /\ req[r].res.status = 200 =>
              model = "handle" /\ req[r].modelAtPredict = "handle"
        /\ req[r].pc \in {"select", "update"} => model = "handle"

\* A request with a decodable image reached model.predict before the model
\* was loaded and was answered 500.
C7_Witness ==
    \E r \in Requests :
        /\ req[r].file.kind = "image"
        /\ req[r].modelAtPredict = "undefined"
        /\ req[r].pc = "done"
        /\ req[r].res.status = 500

\* C10: a step in which a recognition request is answered with a Match
\* adds one to the view count of the matched entry and leaves every other
\* entry's count as it was; every other step of a recognition request (a
\* NoMatch answer, a failure answer, a step before the decision) leaves
\* every view count as it was.
C10_ViewCountOnlyAfterMatch ==
    [][\A r \in Requests :
          req'[r] # req[r] =>
              /\ Len(painting') = Len(painting)
              /\ IF req'[r].pc = "done" /\ req'[r].res.success
                 THEN /\ \E k \in 1 .. Len(painting) :
                            painting[k].id = req'[r].res.painting[1].id
                      /\ \A k \in 1 .. Len(painting) :
                            painting'[k].view_count =
                                IF painting[k].id = req'[r].res.painting[1].id
                                THEN painting[k].view_count + 1
                                ELSE painting[k].view_count
                 ELSE \A k \in 1 .. Len(painting) :
                          painting'[k].view_count = painting[k].view_count]_vars

\* A Match has been answered for one of two processed entries: its count
\* is one and the other entry's count is still zero.
C10_Witness ==
    \E r \in Requests :
        /\ req[r].pc = "done"
        /\ req[r].res.success
        /\ Len(painting) = 2
        /\ \A k \in 1 .. 2 :
              /\ painting[k].features # SqlNull
              /\ painting[k].view_count =
                    IF painting[k].id = req[r].res.painting[1].id THEN 1 ELSE 0

\* C11 as stated: once a request has selected a Match (it has issued the
\* UPDATE of the view count), the answer it ends with is the success
\* answer, whatever becomes of the UPDATE.  The handler awaits the UPDATE
\* inside its try block, so a rejected UPDATE is answered 500.
C11_MatchAnsweredWhateverTheIncrement ==
    [][\A r \in Requests :
          req[r].pc = "update" /\ req'[r].pc = "done" =>
              req'[r].res = MatchResponse(req[r].bestMatch,
                                          req[r].highestSimilarity)]_vars

\* C12: a request whose extraction threw has called extractFeatures once,
\* is answered with the failure answer, and has issued no query, neither
\* the SELECT nor the UPDATE.
C12_ExtractionFailureEndsRequest ==
    \A r \in Requests :
        req[r].extraction = "threw" =>
            /\ req[r].extractions = 1
            /\ req[r].pc = "done"
            /\ req[r].res = ServerError
            /\ req[r].queries = <<>>
            /\ req[r].rows = <<>>

\* The image could not be decoded while the model was loaded and the
\* table held a processed entry: the request is over, answered 500.
C12_Witness ==
    \E r \in Requests :
        /\ req[r].file.kind = "corrupt"
        /\ req[r].extraction = "threw"
        /\ req[r].res.status = 500
        /\ model = "handle"
        /\ \E k \in 1 .. Len(painting) : painting[k].features # SqlNull

\* The score of row j of the snapshot request r read, against r's query.
ReqScore(r, j) ==
    calculateSimilarity(req[r].uploadedFeatures,
                        JSONparse(req[r].rows[j].features).val).val

\* Row j is what request r selects when it runs alone on its query and
\* its snapshot: the first row with the greatest score, that score being
\* above the threshold.
AloneWinner(r, j) ==
    /\ GT(ReqScore(r, j), confidenceThreshold)
    /\ \A k \in 1 .. Len(req[r].rows) : ~GT(ReqScore(r, k), ReqScore(r, j))
    /\ \A k \in 1 .. j - 1 : GT(ReqScore(r, j), ReqScore(r, k))

\* The score request r reports when it runs alone and no row wins: the
\* greatest score above 0, or 0.
AloneBestScore(r, h) ==
    /\ \A k \in 1 .. Len(req[r].rows) : ~GT(ReqScore(r, k), h)
    /\ \/ h = Zero
       \/ \E k \in 1 .. Len(req[r].rows) : ReqScore(r, k) = h

\* C13: with several requests in flight, a request that has selected a
\* Match holds, and answers with, the row and score it selects alone on
\* the query and snapshot it read; a request answered NoMatch has no such
\* row in its snapshot and reports the score it reports alone; and a step
\* of one request leaves the local variables of every other request as
\* they were.
C13_RequestsDoNotInterfere ==
    /\ [](\A r \in Requests :
            /\ req[r].pc = "update" \/ req[r].res.success =>
                  \E j \in 1 .. Len(req[r].rows) :
                      /\ AloneWinner(r, j)
                      /\ req[r].bestMatch = <<req[r].rows[j]>>
                      /\ req[r].highestSimilarity = ReqScore(r, j)
                      /\ req[r].res.success =>
                            /\ req[r].res.painting[1].id = req[r].rows[j].id
                            /\ req[r].res.confidence = ReqScore(r, j)
            /\ req[r].res.status = 200 /\ ~req[r].res.success =>
                  /\ \A j \in 1 .. Len(req[r].rows) : ~AloneWinner(r, j)
                  /\ AloneBestScore(r, req[r].res.confidence))
    /\ [][\A r, q \in Requests :
             r # q /\ req'[q] # req[q] => req'[r] = req[r]]_vars

\* Two requests are in flight at once, each awaiting its UPDATE, having
\* selected different entries.
C13_Witness ==
    /\ req[1].pc = "update"
    /\ req[2].pc = "update"
    /\ req[1].bestMatch # req[2].bestMatch

MatchesOf(id) ==
    {r \in Requests : /\ req[r].pc = "done"
                      /\ req[r].res.success
                      /\ req[r].res.painting[1].id = id}

\* C20: in every interleaving of the requests, the view count of an entry
\* is the count it started with (0) plus the number of requests answered
\* with a Match of that entry: no increment is lost and none is doubled.
C20_NoLostViewCount ==
    \A k \in 1 .. Len(painting) :
        painting[k].view_count = 0 + Cardinality(MatchesOf(painting[k].id))

\* All the requests were answered with a Match of the same entry, whose
\* count is their number.
C20_Witness ==
    \E k \in 1 .. Len(painting) :
        /\ MatchesOf(painting[k].id) = Requests
        /\ painting[k].view_count = MaxReq

----------------------------------------------------------------------------
\* Properties of calculateSimilarity (checked under SimilaritySpec)

\* C15: for two vectors of the same length, calculateSimilarity gives the
\* same value whichever of them is the first argument (NaN both ways when
\* one of them is a zero vector).
C15_SimilaritySymmetric ==
    call.pc = "done" /\ Len(call.features1.items) = Len(call.features2.items) =>
        /\ ~call.result.threw
        /\ call.swapped = call.result

\* [1,2] against [3,4], norms 5 and 25: 11 / sqrt(125) both ways.
C15_Witness ==
    /\ call.pc = "done"
    /\ call.features1.items = <<1, 2>>
    /\ call.features2.items = <<3, 4>>
    /\ call.result.val = [nan |-> FALSE, num |-> 121, den |-> 125]
    /\ call.swapped.val = [nan |-> FALSE, num |-> 121, den |-> 125]

\* Request r has run its loop and taken the threshold decision.
Decided(r) ==
    req[r].pc = "update" \/ req[r].res.status = 200 \/ Len(req[r].queries) = 2

\* The decision of request r was a Match: it went on to the UPDATE.
DecidedMatch(r) == req[r].pc = "update" \/ Len(req[r].queries) = 2

----------------------------------------------------------------------------
\* Properties of the handler that logs recognitions (checked under LogSpec)

\* The rows of recognition_logs request r inserted.
LogRowsOf(r) == {row \in recognition_logs : row.by = r}

\* Request r took the threshold decision and is over.
DecidedAndDone(r) == req[r].pc = "done" /\ Len(req[r].queries) >= 2

\* The INSERT of request r has resolved.
InsertResolved(r) ==
    \/ req[r].pc = "update"
    \/ Len(req[r].queries) = 3
    \/ Len(req[r].queries) = 2 /\ req[r].res.status = 200

\* C23 as stated: every request that took the threshold decision has
\* inserted exactly one log row, whose success flag is the success field
\* of the answer.  A rejected INSERT leaves no row, and a rejected UPDATE
\* leaves a row with success true beside the answer 500.
C23_OneLogRowPerDecision ==
    \A r \in Requests :
        DecidedAndDone(r) =>
            \E row \in recognition_logs :
                /\ LogRowsOf(r) = {row}
                /\ row.success = req[r].res.success

\* C23, amended: a request has a log row exactly when its INSERT has
\* resolved, and never more than one; the row is (matched id, score, true)
\* after a Match decision and (NULL, best score, false) after a NoMatch
\* decision; a request answered 200 has its row, with the success flag of
\* the answer; the row of a Match is there while the UPDATE is still to
\* come; and the view count of an entry is the number of requests
\* answered with a Match of it, so a rejected INSERT or UPDATE leaves the
\* counts as they were.
C23_LogRowWhenInsertResolved ==
    /\ \A r \in Requests :
          /\ LogRowsOf(r) # {} <=> InsertResolved(r)
          /\ req[r].pc = "update" \/ Len(req[r].queries) = 3 =>
                LogRowsOf(r) = {[painting_id |-> req[r].bestMatch[1].id,
                                 confidence_score |-> req[r].highestSimilarity,
                                 success |-> TRUE, by |-> r]}
          /\ req[r].res.status = 200 =>
                LogRowsOf(r) =
                    {[painting_id |-> IF req[r].res.success
                                      THEN req[r].res.painting[1].id ELSE 0,
                      confidence_score |-> req[r].res.confidence,
                      success |-> req[r].res.success, by |-> r]}
    /\ \A k \in 1 .. Len(painting) :
          painting[k].view_count = Cardinality(MatchesOf(painting[k].id))

\* The INSERT of a Match resolved and the UPDATE was rejected: the row
\* with success true is there, the answer is 500 and no count has moved.
C23_Witness ==
    \E r \in Requests :
        /\ req[r].queries = <<"SELECT", "INSERT", "UPDATE">>
        /\ req[r].res = ServerError
        /\ \E row \in LogRowsOf(r) : row.success /\ row.painting_id # 0
        /\ \A k \in 1 .. Len(painting) : painting[k].view_count = 0

----------------------------------------------------------------------------
\* Properties of the admin handlers (checked under AdminSpec)

\* C18 as stated: once an entry holds a feature vector, no step of an
\* add-features or recognition request replaces it with another one.  The
\* UPDATE of add-features has no condition on the features column, so a
\* second ingestion for the same id overwrites the stored vector.
C18_FeaturesWrittenOnce ==
    [][\A k \in 1 .. Len(painting) :
          painting[k].features # SqlNull =>
              painting'[k].features = painting[k].features]_vars

\* The entry with this id holds a feature vector.
HasFeatures(id) ==
    \E k \in 1 .. Len(painting) :
        painting[k].id = id /\ painting[k].features # SqlNull

\* C22: a row inserted by add-painting has no feature vector, the status
\* 'pending' and the count 0; a painting inserted by add-painting holds a
\* vector only if an add-features request for its id was answered 200;
\* the entry a recognition request selects holds a vector when the
\* request reads the table, so never a painting still in its pending
\* state; and no step takes a vector away from a row that holds one.
C22_PendingUntilFeaturesAdded ==
    /\ [](/\ \A id \in history.added :
               HasFeatures(id) => id \in history.ingested
          /\ \A id \in history.added \ history.ingested :
               \A k \in 1 .. Len(painting) :
                   painting[k].id = id =>
                       /\ painting[k].features = SqlNull
                       /\ painting[k].processing_status = "pending"
                       /\ painting[k].view_count = 0)
    /\ [][/\ Len(painting') > Len(painting) =>
                /\ painting'[Len(painting')].features = SqlNull
                /\ painting'[Len(painting')].processing_status = "pending"
                /\ painting'[Len(painting')].id \in history'.added
          /\ \A r \in Requests :
                req[r].pc = "select" /\ req'[r].bestMatch # <<>> =>
                    HasFeatures(req'[r].bestMatch[1].id)
          /\ \A k \in 1 .. Len(painting) :
                painting[k].features # SqlNull =>
                    painting'[k].features # SqlNull]_vars

\* A painting inserted by add-painting was given features by add-features
\* and has then been answered as the Match of a recognition request.
C22_Witness ==
    \E r \in Requests :
        /\ req[r].pc = "done"
        /\ req[r].res.success
        /\ req[r].res.painting[1].id \in history.added
        /\ req[r].res.painting[1].id \in history.ingested

\* C25: an add-features request whose UPDATE resolves for an id no entry
\* has is answered 404 'Painting not found', and the step that answers it
\* leaves the table as it was; a request without an image or without a
\* painting id is answered 400 on entry, having called extractFeatures
\* never and issued no query, and that step leaves the table as it was.
C25_NotFoundAndRejectedChangeNothing ==
    /\ [](/\ adm.res.status = 400 =>
               /\ adm.file.kind = "none" \/ adm.paintingId = 0
               /\ adm.extractions = 0
               /\ adm.queries = <<>>
          /\ adm.res = PaintingNotFound =>
               /\ adm.extractions = 1
               /\ adm.queries = <<"UPDATE">>)
    /\ [][/\ (adm' # adm /\ adm'.res.status \in {400, 404}) =>
                painting' = painting
          /\ (adm.pc = "update" /\ adm'.queries = <<"UPDATE">>
                  /\ \A k \in 1 .. Len(painting) : painting[k].id # adm.paintingId)
              => adm'.res \in {PaintingNotFound, FeaturesFailed}
          /\ (adm.pc = "update" /\ adm'.res = PaintingNotFound) =>
                \A k \in 1 .. Len(painting) : painting[k].id # adm.paintingId
          /\ (adm' # adm /\ adm'.pc # "done") =>
                adm'.file.kind # "none" /\ adm'.paintingId # 0]_vars

\* An add-features request with an image for an id no entry has was
\* answered 404 while the table holds an entry with features and an entry
\* without.
C25_Witness ==
    /\ adm.res = PaintingNotFound
    /\ adm.file.kind = "image"
    /\ \E k \in 1 .. Len(painting) : painting[k].features # SqlNull
    /\ \E k \in 1 .. Len(painting) : painting[k].features = SqlNull

----------------------------------------------------------------------------
\* Properties of the server from its start (checked under StartupSpec)

\* C24: loadModel runs once: when it has resolved or rejected it never
\* runs again.  Once it has rejected, the model handle is unset in every
\* later state, every answer of GET / and GET /api/health says 'loading',
\* and every recognition or add-features request that is answered is
\* answered 400 or 500.
C24_FailedLoadIsFinal ==
    /\ [](loadModel_pc = "rejected" =>
            /\ model = "undefined"
            /\ probe.status # 0 => probe.aiModel = "loading"
            /\ \A r \in Requests :
                  req[r].pc = "done" =>
                      ~req[r].res.success /\ req[r].res.status \in {400, 500}
            /\ adm.pc = "done" =>
                  ~adm.res.success /\ adm.res.status \in {400, 500})
    /\ [][/\ loadModel_pc # "awaiting" => loadModel_pc' = loadModel_pc
          /\ loadModel_pc = "rejected" => model' = "undefined"
          /\ loadModel_pc = "rejected" /\ probe' # probe =>
                probe'.aiModel = "loading"]_vars

\* The load was rejected; afterwards the health endpoint answered
\* 'loading', and a recognition request and an add-features request, each
\* with a decodable image, were answered 500.
C24_Witness ==
    /\ loadModel_pc = "rejected"
    /\ probe.endpoint = "/api/health"
    /\ probe.status = 200
    /\ probe.aiModel = "loading"
    /\ req[1].file.kind = "image" /\ req[1].res.status = 500
    /\ adm.file.kind = "image" /\ adm.res.status = 500

----------------------------------------------------------------------------
\* Properties of generate-description (checked under DescribeSpec)

\* C19 as stated: a request that carries a title and an artist, made
\* without an API key or with a failing API call, is answered success
\* true with the template text, never with an error answer.  The handler
\* accepts any truthy artist, and the template calls artist.toLowerCase.
C19_FallsBackToTemplate ==
    (gen.pc = "done"
        /\ ~Falsy(gen.title) /\ ~Falsy(gen.artist)
        /\ (~gen.apiKey \/ gen.api = "rejected"))
    => /\ gen.res.status = 200
       /\ gen.res.success
       /\ gen.res.description.from = "template"

====
